---- MODULE Spec2Model ----
(***************************************************************************)
(* A model of the harvester GPU miner: the batch executor and autotuner    *)
(* of wgpu-sha256-miner (GpuMiner::run_batch, GpuMiner::autotune), the     *)
(* buffer fabric (create_buffers) and the tip-change bridge of             *)
(* btccore-bridge (Bridge::new, listen_for_new_block).                     *)
(*                                                                         *)
(* The GPU is an asynchronous command queue: queue.submit hands commands   *)
(* over, the device executes them in order at its own pace, and            *)
(* device.poll(Maintain::Wait) blocks the host until the queue is drained  *)
(* and every pending mapping has been resolved.                            *)
(***************************************************************************)
EXTENDS Integers, Sequences, FiniteSets, TLC

(***************************************************************************)
(* Bounds of the model.                                                    *)
(***************************************************************************)
\* The output array is sampled at lanes 0..MaxLowLane and at the last lane.
MaxLowLane == 1
\* Device limits max_compute_workgroup_size_x up to 2^MaxLimitExp are drawn.
MaxLimitExp == 7
\* Elapsed times (ms) recorded by autotune are drawn from 0..MaxTime.
MaxTime == 1
\* create_buffers is tried on the low halves 0..MaxSmallBatch, among others.
MaxSmallBatch == 2
\* The notifier returns at most MaxNotified hashes.
MaxNotified == 9
\* At most MaxWinners of the sampled nonces qualify.
MaxWinners == 1
\* The driver's loop runs at most MaxLoops iterations.
MaxLoops == 4100
\* Raw codec inputs stride by 0..MaxStride from byte to byte.
MaxStride == 3

(***************************************************************************)
(* Program constants.                                                      *)
(***************************************************************************)
\* let batch_size: u32 = 1048576;
batch_size == 1048576
\* None => 64
DefaultWgSize == 64
\* GpuMiner::new(Some(4)) in tests::autotune_sets_reasonable_value
TestWgSize == 4
\* let mut best_size = 32;
InitialBestSize == 32
\* let mut n = 5;
StartExp == 5
\* for _ in 0..20
K == 20
\* let mut best_time = u128::MAX; any value above every elapsed time the
\* model draws behaves as u128::MAX does (as_millis never returns it).
U128_MAX == 2147483647

\* mpsc::channel(8)
ChanCapacity == 8
\* assert_eq!(hash_rx.capacity(), 8) in tests::bridge_creation_works
TestedCapacity == 8
\* let cpu_cores = 4
cpu_cores == 4

U16 == 2 ^ 16

AsU16(x) == x % U16

base_pow(e) == 2 ^ e

(***************************************************************************)
(* Inputs.                                                                 *)
(***************************************************************************)
NumLanes == MaxLowLane + 2

\* The lane a sample index 1..NumLanes stands for.
LaneOf(k) == IF k <= MaxLowLane + 1 THEN k - 1 ELSE batch_size - 1

Lanes == {LaneOf(k) : k \in 1..NumLanes}

\* Header words are abstracted by the set of lanes whose digest wins for
\* them; the all-zero header [0u32; 32] is one fixed header whose winning
\* lanes are unknown (zero_winners).
ZeroHeader == [zero |-> TRUE, win |-> {}]

Headers == {ZeroHeader} \cup {[zero |-> FALSE, win |-> S] : S \in SUBSET Lanes}

WgChoices == {TestWgSize, DefaultWgSize}

\* GpuMiner::new takes any u32: also one that does not divide batch_size
\* and one above 16 bits.
AnyWgSizes == WgChoices \cup {3, U16 + DefaultWgSize}

Limits == {2 ^ e : e \in 4..MaxLimitExp} \cup {2 ^ StartExp - 1, 2 ^ MaxLimitExp - 1}

None == <<"None">>
Some(x) == <<"Some", x>>
Ok(x) == <<"Ok", x>>
Err(msg) == <<"Err", msg>>
NoCall == [op |-> "none", ret |-> <<>>]

VARIABLES
    \* --- GpuMiner and its device ---
    max,              \* device.limits().max_compute_workgroup_size_x
    wg_init,          \* the wg_size GpuMiner::new stored
    wg_size,          \* self.wg_size
    compute_pipeline, \* workgroup size compiled into self.compute_pipeline
    zero_winners,     \* lanes that win for the all-zero header
    header_buffer,    \* header words visible to the shader
    output_buffer,    \* sampled lanes of the output buffer
    staging_buffer,   \* sampled lanes of the staging buffer
    staging_map,      \* "unmapped" | "pending" | "mapped" | "failed"
    pending_writes,   \* queue.write_buffer calls staged for the next submit
    encoder,          \* commands recorded in the command encoder
    gpu_queue,        \* submitted commands the device has not executed yet
    \* --- run_batch ---
    pc, words, res, last,
    \* --- autotune ---
    at, n, best_size, best_time, i,
    \* --- history ---
    tested,           \* <<W, time, batches run>> of every size the sweep tested
    log,              \* host steps of the current batch, in order
    open_batches,     \* batches submitted and not yet unmapped
    errors,           \* run_batch errors since the last call from outside
    mixed,            \* an earlier run_batch call had other header words
    \* --- create_buffers ---
    cb_pc,            \* position in create_buffers
    cb_batch,         \* its batch_size argument, a u32 as two 16-bit halves
    cb_scope,         \* "none" | "pushed" | "popped": the validation error scope
    cb_buffers,       \* <<label, size>> of every buffer created so far
    cb_result,        \* what create_buffers returned
    \* --- tip-change bridge ---
    chan,             \* hashes queued in the mpsc channel
    rx_open,          \* the Receiver has not been dropped
    l_pc,             \* listen_for_new_block: "recv" | "send" | "done" | "aborted"
    prev_hash,        \* its local prev_hash
    l_result,         \* what listen_for_new_block returned
    notified,         \* history: hashes zmq_receiver.recv() returned
    received,         \* history: hashes the consumer received
    \* --- header codec ---
    c_pc,             \* "new" | "to_bytes" | "nonce" | "preprocess" |
                      \* "parse_words" | "done" | "failed"
    c_hex,            \* the five hex strings given to BlockHeader::new
    c_header,         \* what BlockHeader::new returned
    c_bytes,          \* what to_bytes returned
    c_input,          \* the 80 bytes given to sha256_preprocess
    c_padded,         \* the 128 bytes given to sha256_parse_words
    c_words,          \* the 32 words sha256_parse_words returned
    \* --- the driver's mining loop ---
    d_pc,             \* position in main
    d_words,          \* words
    count,            \* count, a u32 as two 16-bit halves
    d_res,            \* res, what run_batch returned
    winning_nonce,    \* winning_nonce
    d_header_bytes,   \* the reconstructed header_bytes
    loops,            \* history: 1-based index of the current iteration
    printed,          \* history: the current iteration printed the hash rate
    \* --- the multi-threaded CPU search ---
    m_pc,             \* main: "spawn_timer" | "spawn" | "recv" | "join_timer" |
                      \* "join" | "done"
    m_i,              \* main: the index of its spawn and join loops
    m_found,          \* main: the nonce receiver.recv() returned
    s_stop,           \* arc_stop, the AtomicBool
    s_chan,           \* nonces sent and not yet received
    t_pc,             \* timer thread: "none" | "check" | "sleep" | "done"
    w_pc,             \* worker i: "none" | "check" | "hash" | "store" | "done"
    w_start,          \* worker i: start
    w_end,            \* worker i: end
    w_nonce,          \* worker i: nonce, the loop variable
    qualifies,        \* nonces whose hash has `diff` leading zero bytes
    s_tested          \* history: nonces some worker hashed

miner_vars ==
    <<max, wg_init, wg_size, compute_pipeline, zero_winners, header_buffer,
      output_buffer, staging_buffer, staging_map, pending_writes, encoder,
      gpu_queue, pc, words, res, last, at, n, best_size, best_time, i,
      tested, log, open_batches, errors, mixed>>

cb_vars == <<cb_pc, cb_batch, cb_scope, cb_buffers, cb_result>>

bridge_vars == <<chan, rx_open, l_pc, prev_hash, l_result, notified, received>>

codec_vars ==
    <<c_pc, c_hex, c_header, c_bytes, c_input, c_padded, c_words>>

driver_vars ==
    <<d_pc, d_words, count, d_res, winning_nonce, d_header_bytes, loops,
      printed>>

search_vars ==
    <<m_pc, m_i, m_found, s_stop, s_chan, t_pc, w_pc, w_start, w_end,
      w_nonce, qualifies, s_tested>>

bin_vars == <<codec_vars, driver_vars, search_vars>>

vars == <<miner_vars, cb_vars, bridge_vars, bin_vars>>

ZeroArray == [k \in 1..NumLanes |-> 0]

(***************************************************************************)
(* GpuMiner::new: batch_size 2^20, wg_size the given one or 64, a shader   *)
(* compiled with wg_size narrowed to u16, freshly created (zeroed,         *)
(* unmapped) buffers.                                                      *)
(***************************************************************************)
MinerNew(limits, sizes, winsets) ==
    /\ max \in limits
    /\ wg_init \in sizes
    /\ wg_size = wg_init
    /\ compute_pipeline = AsU16(wg_init)
    /\ zero_winners \in winsets
    /\ header_buffer = ZeroHeader
    /\ output_buffer = ZeroArray
    /\ staging_buffer = ZeroArray
    /\ staging_map = "unmapped"
    /\ pending_writes = <<>>
    /\ encoder = <<>>
    /\ gpu_queue = <<>>
    /\ pc = "idle"
    /\ words = ZeroHeader
    /\ res = <<>>
    /\ last = NoCall
    /\ at = "idle"
    /\ n = StartExp
    /\ best_size = InitialBestSize
    /\ best_time = U128_MAX
    /\ i = 0
    /\ tested = <<>>
    /\ log = <<>>
    /\ open_batches = 0
    /\ errors = 0
    /\ mixed = FALSE

autotune_locals == <<at, n, best_size, best_time, i, tested>>
gpu_side == <<header_buffer, output_buffer, staging_buffer, gpu_queue>>
\* What no step of the miner changes.
config == <<max, wg_init, zero_winners, cb_vars, bridge_vars, bin_vars>>

(***************************************************************************)
(* The mining kernel (mine.wgsl, section 4.5 of the specification): lane   *)
(* writes its nonce, the lane index, when it wins and 0 otherwise.         *)
(***************************************************************************)
KernelWinners(h) == IF h.zero THEN zero_winners ELSE h.win

KernelWrite(h, lane) == IF lane \in KernelWinners(h) THEN lane ELSE 0

\* dispatch_workgroups(groups, 1, 1) of a pipeline compiled for wg lanes
\* runs the lanes 0..groups*wg-1; writes beyond the array are dropped.
GpuDispatch(groups, wg) ==
    [k \in 1..NumLanes |->
        IF LaneOf(k) < groups * wg
        THEN KernelWrite(header_buffer, LaneOf(k))
        ELSE output_buffer[k]]

\* The device executes the oldest submitted command.
GpuExec ==
    /\ gpu_queue # <<>>
    /\ LET c == Head(gpu_queue) IN
        /\ header_buffer' = IF c[1] = "write" THEN c[2] ELSE header_buffer
        /\ output_buffer' =
             IF c[1] = "dispatch" THEN GpuDispatch(c[2], c[3]) ELSE output_buffer
        /\ staging_buffer' = IF c[1] = "copy" THEN output_buffer ELSE staging_buffer
    /\ gpu_queue' = Tail(gpu_queue)
    /\ UNCHANGED <<config, mixed, errors, wg_size, compute_pipeline,
                   staging_map, pending_writes, encoder, pc, words, res, last,
                   autotune_locals, log, open_batches>>

(***************************************************************************)
(* GpuMiner::run_batch                                                     *)
(***************************************************************************)
\* A caller outside the engine starts run_batch(words).
CallRunBatch(h) ==
    /\ pc = "idle"
    /\ at = "idle"
    /\ words' = h
    /\ mixed' = (mixed \/ (last.op = "run_batch" /\ words # h))
    /\ pc' = "write_buffer"
    /\ last' = NoCall
    /\ log' = <<>>
    /\ tested' = <<>>
    /\ errors' = 0
    /\ UNCHANGED <<config, wg_size, compute_pipeline, gpu_side, staging_map,
                   pending_writes, encoder, res, at, n, best_size, best_time,
                   i, open_batches>>

\* self.queue.write_buffer(&self.header_buffer, 0, words)
WriteBuffer ==
    /\ pc = "write_buffer"
    /\ pending_writes' = Append(pending_writes, <<"write", words>>)
    /\ log' = Append(log, "upload")
    /\ pc' = "encode_pass"
    /\ UNCHANGED <<config, mixed, errors, wg_size, compute_pipeline, gpu_side,
                   staging_map, encoder, words, res, last, autotune_locals,
                   open_batches>>

\* create_command_encoder; the compute pass with the installed pipeline and
\* dispatch_workgroups(batch_size / wg_size, 1, 1)
EncodePass ==
    /\ pc = "encode_pass"
    /\ wg_size # 0
    /\ encoder' = <<<<"dispatch", batch_size \div wg_size, compute_pipeline>>>>
    /\ log' = Append(log, "dispatch")
    /\ pc' = "encode_copy"
    /\ UNCHANGED <<config, mixed, errors, wg_size, compute_pipeline, gpu_side,
                   staging_map, pending_writes, words, res, last,
                   autotune_locals, open_batches>>

\* encoder.copy_buffer_to_buffer(output, 0, staging, 0, batch_size * 4)
EncodeCopy ==
    /\ pc = "encode_copy"
    /\ encoder' = Append(encoder, <<"copy", batch_size * 4>>)
    /\ log' = Append(log, "copy")
    /\ pc' = "submit"
    /\ UNCHANGED <<config, mixed, errors, wg_size, compute_pipeline, gpu_side,
                   staging_map, pending_writes, words, res, last,
                   autotune_locals, open_batches>>
\* A plausible slip: the staged header write is ordered after the commands
\* of the submission, so the pass reads the header of the batch before.
SubmitWritesLast ==
    /\ pc = "submit"
    /\ gpu_queue' = gpu_queue \o encoder \o pending_writes
    /\ pending_writes' = <<>>
    /\ encoder' = <<>>
    /\ open_batches' = open_batches + 1
    /\ log' = Append(log, "submit")
    /\ pc' = "map_async"
    /\ UNCHANGED <<config, mixed, errors, wg_size, compute_pipeline,
                   header_buffer, output_buffer, staging_buffer, staging_map,
                   words, res, last, autotune_locals>>

\* self.queue.submit(Some(encoder.finish())): staged writes, then the
\* encoded commands, go to the device.
Submit ==
    /\ pc = "submit"
    /\ gpu_queue' = gpu_queue \o pending_writes \o encoder
    /\ pending_writes' = <<>>
    /\ encoder' = <<>>
    /\ open_batches' = open_batches + 1
    /\ log' = Append(log, "submit")
    /\ pc' = "map_async"
    /\ UNCHANGED <<config, mixed, errors, wg_size, compute_pipeline,
                   header_buffer, output_buffer, staging_buffer, staging_map,
                   words, res, last, autotune_locals>>

\* slice.map_async(MapMode::Read, callback): registers the mapping; wgpu
\* panics ("Buffer is already mapped") when a mapping registered earlier
\* was never cleared by unmap().
MapAsync ==
    /\ pc = "map_async"
    /\ IF staging_map = "unmapped"
       THEN /\ staging_map' = "pending"
            /\ log' = Append(log, "map")
            /\ pc' = "poll"
       ELSE /\ pc' = "panicked"
            /\ UNCHANGED <<staging_map, log>>
    /\ UNCHANGED <<config, mixed, errors, wg_size, compute_pipeline, gpu_side,
                   pending_writes, encoder, words, res, last, autotune_locals,
                   open_batches>>

\* self.device.poll(Maintain::Wait): returns once the submitted work is
\* done and the mapping callback has run, with success or with an error.
Poll ==
    /\ pc = "poll"
    /\ gpu_queue = <<>>
    /\ staging_map' \in {"mapped", "failed"}
    /\ log' = Append(log, "poll")
    /\ pc' = "await"
    /\ UNCHANGED <<config, mixed, errors, wg_size, compute_pipeline, gpu_side,
                   pending_writes, encoder, words, res, last, autotune_locals,
                   open_batches>>

\* run_batch returns r: to autotune's calibration loop, which discards it
\* (_ = self.run_batch(..).await), or to the outside caller.
Return(r) ==
    /\ pc' = "idle"
    /\ res' = <<>>
    /\ errors' = IF r[1] = "Err" THEN errors + 1 ELSE errors
    /\ IF at = "batches"
       THEN /\ i' = i + 1
            /\ UNCHANGED last
       ELSE /\ last' = [op |-> "run_batch", ret |-> r]
            /\ UNCHANGED i

\* A plausible slip: the mapping result is dropped instead of checked.
AwaitNoCheck ==
    /\ pc = "await"
    /\ pc' = "read"
    /\ UNCHANGED <<res, last, i, errors>>
    /\ UNCHANGED <<config, mixed, wg_size, compute_pipeline, gpu_side,
                   staging_map, pending_writes, encoder, words, at, n,
                   best_size, best_time, tested, log, open_batches>>

\* receiver.await.context("Mapping from GPU failed.")??
Await ==
    /\ pc = "await"
    /\ IF staging_map = "mapped"
       THEN /\ pc' = "read"
            /\ UNCHANGED <<res, last, i, errors>>
       ELSE Return(Err("Mapping from GPU failed."))
    /\ UNCHANGED <<config, mixed, wg_size, compute_pipeline, gpu_side,
                   staging_map, pending_writes, encoder, words, at, n,
                   best_size, best_time, tested, log, open_batches>>

\* let data = slice.get_mapped_range(); let res = cast_slice(&data).to_vec()
Read ==
    /\ pc = "read"
    /\ res' = staging_buffer
    /\ log' = Append(log, "read")
    /\ pc' = "unmap"
    /\ UNCHANGED <<config, mixed, errors, wg_size, compute_pipeline, gpu_side,
                   staging_map, pending_writes, encoder, words, last,
                   autotune_locals, open_batches>>

\* drop(data); self.staging_buffer.unmap()
Unmap ==
    /\ pc = "unmap"
    /\ staging_map' = "unmapped"
    /\ open_batches' = open_batches - 1
    /\ log' = Append(log, "unmap")
    /\ pc' = "scan"
    /\ UNCHANGED <<config, mixed, errors, wg_size, compute_pipeline, gpu_side,
                   pending_writes, encoder, words, res, last, autotune_locals>>

RECURSIVE LastNonZero(_, _)
LastNonZero(r, k) ==
    IF k < 1 THEN None
    ELSE IF r[k] # 0 THEN Some(r[k]) ELSE LastNonZero(r, k - 1)

RECURSIVE ScanFrom(_, _)
\* for &nonce in res.iter() { if nonce != 0 { return Ok(Some(nonce)) } }
ScanFrom(r, k) ==
    IF k > Len(r) THEN None
    ELSE IF r[k] # 0 THEN Some(r[k]) ELSE ScanFrom(r, k + 1)

ScanLast(r) == LastNonZero(r, Len(r))

FirstNonZero(r) == ScanFrom(r, 1)

Scan ==
    /\ pc = "scan"
    /\ Return(Ok(FirstNonZero(res)))
    /\ UNCHANGED <<config, mixed, wg_size, compute_pipeline, gpu_side,
                   staging_map, pending_writes, encoder, words, at, n,
                   best_size, best_time, tested, log, open_batches>>

RunBatchStep ==
    \/ WriteBuffer
    \/ EncodePass
    \/ EncodeCopy
    \/ Submit
    \/ MapAsync
    \/ Poll
    \/ Await
    \/ Read
    \/ Unmap
    \/ Scan

(***************************************************************************)
(* GpuMiner::autotune                                                      *)
(***************************************************************************)
\* let max = limits().max_compute_workgroup_size_x; best_size = 32;
\* best_time = u128::MAX; n = 5
CallAutotune ==
    /\ pc = "idle"
    /\ at = "idle"
    /\ at' = "while"
    /\ n' = StartExp
    /\ best_size' = InitialBestSize
    /\ best_time' = U128_MAX
    /\ i' = 0
    /\ tested' = <<>>
    /\ last' = NoCall
    /\ log' = <<>>
    /\ errors' = 0
    /\ UNCHANGED <<config, mixed, wg_size, compute_pipeline, gpu_side,
                   staging_map, pending_writes, encoder, pc, words, res,
                   open_batches>>

\* A plausible slip: the loop bound is off by one power of two.
AtWhilePastLimit ==
    /\ at = "while"
    /\ IF base_pow(n - 1) <= max
       THEN /\ wg_size' = base_pow(n)
            /\ compute_pipeline' = AsU16(base_pow(n))
            /\ i' = 0
            /\ at' = "batches"
       ELSE /\ at' = "install"
            /\ UNCHANGED <<wg_size, compute_pipeline, i>>
    /\ UNCHANGED <<config, mixed, errors, gpu_side, staging_map,
                   pending_writes, encoder, pc, words, res, last, n, best_size,
                   best_time, tested, log, open_batches>>

\* while base.pow(n) <= max { shader for base.pow(n) as u16;
\*   self.wg_size = base.pow(n); self.set_pipeline(&shader); ...
AtWhile ==
    /\ at = "while"
    /\ IF base_pow(n) <= max
       THEN /\ wg_size' = base_pow(n)
            /\ compute_pipeline' = AsU16(base_pow(n))
            /\ i' = 0
            /\ at' = "batches"
       ELSE /\ at' = "install"
            /\ UNCHANGED <<wg_size, compute_pipeline, i>>
    /\ UNCHANGED <<config, mixed, errors, gpu_side, staging_map,
                   pending_writes, encoder, pc, words, res, last, n, best_size,
                   best_time, tested, log, open_batches>>

\* for _ in 0..20 { _ = self.run_batch(&[0u32; 32]).await; }
AtBatch ==
    /\ at = "batches"
    /\ pc = "idle"
    /\ i < K
    /\ words' = ZeroHeader
    /\ pc' = "write_buffer"
    /\ log' = <<>>
    /\ UNCHANGED <<config, mixed, errors, wg_size, compute_pipeline, gpu_side,
                   staging_map, pending_writes, encoder, res, last,
                   autotune_locals, open_batches>>

\* A plausible slip: `time <= best_time` lets a later size win a tie.
RecordLatestOnTie(time) ==
    /\ tested' = Append(tested, <<base_pow(n), time, i>>)
    /\ IF time <= best_time
       THEN /\ best_time' = time
            /\ best_size' = base_pow(n)
       ELSE UNCHANGED <<best_time, best_size>>
    /\ n' = n + 1

\* let time = start_time.elapsed().as_millis();
\* if time < best_time { best_time = time; best_size = base.pow(n); } n += 1;
Record(time) ==
    /\ tested' = Append(tested, <<base_pow(n), time, i>>)
    /\ IF time < best_time
       THEN /\ best_time' = time
            /\ best_size' = base_pow(n)
       ELSE UNCHANGED <<best_time, best_size>>
    /\ n' = n + 1

AtRecord ==
    /\ at = "batches"
    /\ pc = "idle"
    /\ i = K
    /\ \E time \in 0..MaxTime : Record(time)
    /\ at' = "while"
    /\ UNCHANGED <<config, mixed, errors, wg_size, compute_pipeline, gpu_side,
                   staging_map, pending_writes, encoder, pc, words, res, last,
                   i, log, open_batches>>

\* let shader = create_shader_with_wg_size(.., best_size as u16);
\* self.set_pipeline(&shader); self.wg_size = best_size;
AtInstall ==
    /\ at = "install"
    /\ compute_pipeline' = AsU16(best_size)
    /\ wg_size' = best_size
    /\ at' = "idle"
    /\ last' = [op |-> "autotune", ret |-> <<>>]
    /\ UNCHANGED <<config, mixed, errors, gpu_side, staging_map,
                   pending_writes, encoder, pc, words, res, n, best_size,
                   best_time, i, tested, log, open_batches>>

AutotuneStep ==
    \/ AtWhile
    \/ AtBatch
    \/ AtRecord
    \/ AtInstall

(***************************************************************************)
(* create_buffers.  A u32 is kept as two 16-bit halves [hi, lo] and a u64  *)
(* size as [top, hi, lo] (top: the bits above 2^32), so that the 32-bit    *)
(* multiplication keeps its width.                                         *)
(***************************************************************************)
U32(h, l) == [hi |-> h, lo |-> l]

\* batch_size * 4 in unbounded arithmetic.
Times4(b) ==
    LET lo4 == b.lo * 4
        hi4 == b.hi * 4 + lo4 \div U16
    IN [top |-> hi4 \div U16, hi |-> hi4 % U16, lo |-> lo4 % U16]

\* A plausible slip: an unchecked multiplication, which never reports overflow.
wrapping_mul4(b) == Some(U32(Times4(b).hi, Times4(b).lo))

\* batch_size.checked_mul(4): None on 32-bit overflow.
checked_mul4(b) ==
    IF Times4(b).top # 0 THEN None ELSE Some(U32(Times4(b).hi, Times4(b).lo))

\* (batch_size * 4) as u64: the product in 32 bits, then widened.
SizeU64(b) == [top |-> 0, hi |-> Times4(b).hi, lo |-> Times4(b).lo]

HeaderBytes == [top |-> 0, hi |-> 0, lo |-> 128]

BatchSizes ==
    {U32(h, l) : h \in {0, 1, 16, 16383, 16384, 65535},
                 l \in (0..MaxSmallBatch) \cup {2048, 4096, 65535}}

CbInit(sizes) ==
    /\ cb_pc = "checked_mul"
    /\ cb_batch \in sizes
    /\ cb_scope = "none"
    /\ cb_buffers = <<>>
    /\ cb_result = <<>>

\* GpuMiner::new has called create_buffers(&device, 1048576) with success.
CbDone ==
    /\ cb_pc = "done"
    /\ cb_batch = U32(16, 0)
    /\ cb_scope = "popped"
    /\ cb_buffers = <<<<"Header Buffer", HeaderBytes>>,
                      <<"Output Buffer", SizeU64(U32(16, 0))>>,
                      <<"Staging Buffer", SizeU64(U32(16, 0))>>>>
    /\ cb_result = Ok(<<>>)

\* batch_size.checked_mul(4).ok_or_else(|| anyhow!("... overflow"))?
CbCheckedMul ==
    /\ cb_pc = "checked_mul"
    /\ IF checked_mul4(cb_batch) = None
       THEN /\ cb_result' = Err("Batch size too large, caused overflow")
            /\ cb_pc' = "done"
       ELSE /\ cb_pc' = "zero_check"
            /\ UNCHANGED cb_result
    /\ UNCHANGED <<miner_vars, bridge_vars, bin_vars, cb_batch, cb_scope,
                   cb_buffers>>

\* if batch_size == 0 { return Err(anyhow!("Batch size can't be zero.")) }
CbZeroCheck ==
    /\ cb_pc = "zero_check"
    /\ IF cb_batch = U32(0, 0)
       THEN /\ cb_result' = Err("Batch size can't be zero.")
            /\ cb_pc' = "done"
       ELSE /\ cb_pc' = "push_error_scope"
            /\ UNCHANGED cb_result
    /\ UNCHANGED <<miner_vars, bridge_vars, bin_vars, cb_batch, cb_scope,
                   cb_buffers>>

\* device.push_error_scope(wgpu::ErrorFilter::Validation)
CbPushErrorScope ==
    /\ cb_pc = "push_error_scope"
    /\ cb_scope' = "pushed"
    /\ cb_pc' = "header_buffer"
    /\ UNCHANGED <<miner_vars, bridge_vars, bin_vars, cb_batch, cb_buffers,
                   cb_result>>

\* let header_buffer = device.create_buffer(.. size: 128 ..)
CbCreateHeader ==
    /\ cb_pc = "header_buffer"
    /\ cb_buffers' = Append(cb_buffers, <<"Header Buffer", HeaderBytes>>)
    /\ cb_pc' = "output_buffer"
    /\ UNCHANGED <<miner_vars, bridge_vars, bin_vars, cb_batch, cb_scope,
                   cb_result>>

\* let output_buffer = device.create_buffer(.. size: (batch_size * 4) as u64 ..)
CbCreateOutput ==
    /\ cb_pc = "output_buffer"
    /\ cb_buffers' = Append(cb_buffers, <<"Output Buffer", SizeU64(cb_batch)>>)
    /\ cb_pc' = "staging_buffer"
    /\ UNCHANGED <<miner_vars, bridge_vars, bin_vars, cb_batch, cb_scope,
                   cb_result>>

\* let staging_buffer = device.create_buffer(.. size: (batch_size * 4) as u64 ..)
CbCreateStaging ==
    /\ cb_pc = "staging_buffer"
    /\ cb_buffers' = Append(cb_buffers, <<"Staging Buffer", SizeU64(cb_batch)>>)
    /\ cb_pc' = "pop_error_scope"
    /\ UNCHANGED <<miner_vars, bridge_vars, bin_vars, cb_batch, cb_scope,
                   cb_result>>

\* if let Some(error) = device.pop_error_scope().await { Err(..) } else { Ok(..) }
CbPopErrorScope ==
    /\ cb_pc = "pop_error_scope"
    /\ cb_scope' = "popped"
    /\ cb_result' \in {Err("Buffer creation failed"), Ok(<<>>)}
    /\ cb_pc' = "done"
    /\ UNCHANGED <<miner_vars, bridge_vars, bin_vars, cb_batch, cb_buffers>>

(***************************************************************************)
(* The tip-change bridge.  Bridge::new makes a bounded tokio mpsc channel;  *)
(* listen_for_new_block forwards what the notifier returns; the consumer   *)
(* holds the Receiver.                                                     *)
(***************************************************************************)
Hashes == {0, 1}

\* let (sender, receiver) = mpsc::channel(8)
BridgeNew ==
    /\ chan = <<>>
    /\ rx_open = TRUE
    /\ l_pc = "recv"
    /\ prev_hash = 0
    /\ l_result = <<>>
    /\ notified = <<>>
    /\ received = <<>>

\* Receiver::capacity(): the free slots of the channel.
capacity == ChanCapacity - Len(chan)

\* zmq_receiver.recv().await returned Ok(h)
ZmqRecvOk(h) ==
    /\ l_pc = "recv"
    /\ Len(notified) < MaxNotified
    /\ prev_hash' = h
    /\ notified' = Append(notified, h)
    /\ l_pc' = "send"
    /\ UNCHANGED <<miner_vars, cb_vars, bin_vars, chan, rx_open, l_result,
                   received>>

\* A plausible slip: a failed receive breaks out of the loop and the task
\* returns Ok(()).
ZmqRecvErrBreaks ==
    /\ l_pc = "recv"
    /\ l_result' = Ok(<<>>)
    /\ l_pc' = "done"
    /\ UNCHANGED <<miner_vars, cb_vars, bin_vars, chan, rx_open, prev_hash,
                   notified, received>>

\* zmq_receiver.recv().await.context("Failed to receive ZMQ message.")?
ZmqRecvErr ==
    /\ l_pc = "recv"
    /\ l_result' = Err("Failed to receive ZMQ message.")
    /\ l_pc' = "done"
    /\ UNCHANGED <<miner_vars, cb_vars, bin_vars, chan, rx_open, prev_hash,
                   notified, received>>

\* A plausible slip: try_send, which gives up instead of waiting for space.
SendDropWhenFull ==
    /\ l_pc = "send"
    /\ rx_open
    /\ chan' = IF Len(chan) < ChanCapacity THEN Append(chan, prev_hash) ELSE chan
    /\ l_pc' = "recv"
    /\ UNCHANGED <<miner_vars, cb_vars, bin_vars, rx_open, prev_hash, l_result,
                   notified, received>>

\* A plausible slip: the loop sends the hash again instead of receiving.
SendResends ==
    /\ l_pc = "send"
    /\ rx_open
    /\ Len(chan) < ChanCapacity
    /\ chan' = Append(chan, prev_hash)
    /\ l_pc' = IF Len(chan') < ChanCapacity THEN "send" ELSE "recv"
    /\ UNCHANGED <<miner_vars, cb_vars, bin_vars, rx_open, prev_hash, l_result,
                   notified, received>>

\* sender.send(prev_hash).await completes once the channel has a free slot.
SendOk ==
    /\ l_pc = "send"
    /\ rx_open
    /\ Len(chan) < ChanCapacity
    /\ chan' = Append(chan, prev_hash)
    /\ l_pc' = "recv"
    /\ UNCHANGED <<miner_vars, cb_vars, bin_vars, rx_open, prev_hash, l_result,
                   notified, received>>

\* sender.send(..).await.context("Failed to send message through channel.")?
\* fails once the Receiver is gone.
SendClosed ==
    /\ l_pc = "send"
    /\ ~rx_open
    /\ l_result' = Err("Failed to send message through channel.")
    /\ l_pc' = "done"
    /\ UNCHANGED <<miner_vars, cb_vars, bin_vars, chan, rx_open, prev_hash,
                   notified, received>>

\* The task is cancelled at one of its await points (task.abort()).
Abort ==
    /\ l_pc \in {"recv", "send"}
    /\ l_pc' = "aborted"
    /\ UNCHANGED <<miner_vars, cb_vars, bin_vars, chan, rx_open, prev_hash,
                   l_result, notified, received>>

\* hash_rx.recv().await returned Some(hash)
ConsumerRecv ==
    /\ rx_open
    /\ chan # <<>>
    /\ received' = Append(received, Head(chan))
    /\ chan' = Tail(chan)
    /\ UNCHANGED <<miner_vars, cb_vars, bin_vars, rx_open, l_pc, prev_hash,
                   l_result, notified>>

\* The consumer drops the Receiver: the channel closes and what is still
\* queued is discarded.
ConsumerDrop ==
    /\ rx_open
    /\ rx_open' = FALSE
    /\ chan' = <<>>
    /\ UNCHANGED <<miner_vars, cb_vars, bin_vars, l_pc, prev_hash, l_result,
                   notified, received>>

(***************************************************************************)
(* The header codec: BlockHeader::new, to_bytes, sha256_preprocess and     *)
(* sha256_parse_words.  A string is a sequence of characters, a byte an    *)
(* integer 0..255, a u32 two 16-bit halves.                                *)
(***************************************************************************)
HexLower ==
    <<"0", "1", "2", "3", "4", "5", "6", "7", "8", "9",
      "a", "b", "c", "d", "e", "f">>

HexUpper ==
    <<"0", "1", "2", "3", "4", "5", "6", "7", "8", "9",
      "A", "B", "C", "D", "E", "F">>

\* hex's val(c): the value of a hex digit of either case, -1 for any other
\* character.
val(c) ==
    IF \E k \in 1..16 : HexLower[k] = c
    THEN (CHOOSE k \in 1..16 : HexLower[k] = c) - 1
    ELSE IF \E k \in 1..16 : HexUpper[k] = c
         THEN (CHOOSE k \in 1..16 : HexUpper[k] = c) - 1
         ELSE -1

\* hex::decode(s): OddLength before any character is looked at, then the
\* first character that is no hex digit (0-based index), else the bytes.
hex_decode(s) ==
    IF Len(s) % 2 # 0 THEN Err(<<"OddLength">>)
    ELSE IF \E k \in 1..Len(s) : val(s[k]) < 0
         THEN LET k == CHOOSE j \in 1..Len(s) :
                          /\ val(s[j]) < 0
                          /\ \A m \in 1..(j - 1) : val(s[m]) >= 0
              IN Err(<<"InvalidHexCharacter", s[k], k - 1>>)
         ELSE Ok([j \in 1..(Len(s) \div 2) |->
                      val(s[2 * j - 1]) * 16 + val(s[2 * j])])

from_le_bytes(b) == U32(b[4] * 256 + b[3], b[2] * 256 + b[1])
to_le_bytes(w) == <<w.lo % 256, w.lo \div 256, w.hi % 256, w.hi \div 256>>
from_be_bytes(b) == U32(b[1] * 256 + b[2], b[3] * 256 + b[4])
to_be_bytes(w) == <<w.hi \div 256, w.hi % 256, w.lo \div 256, w.lo % 256>>

\* A plausible slip: the decoded bytes are read big-endian.
hex_to_u32_be(s) ==
    LET d == hex_decode(s) IN
    IF d[1] = "Err" THEN d
    ELSE IF Len(d[2]) # 4 THEN Err(<<"InvalidStringLength">>)
         ELSE Ok(from_be_bytes(d[2]))

\* let bytes: [u8; 4] = hex::decode(s)?.try_into().map_err(..)?;
\* Ok(u32::from_le_bytes(bytes))
hex_to_u32(s) ==
    LET d == hex_decode(s) IN
    IF d[1] = "Err" THEN d
    ELSE IF Len(d[2]) # 4 THEN Err(<<"InvalidStringLength">>)
         ELSE Ok(from_le_bytes(d[2]))

\* hex::decode(s)?.try_into().map_err(|_| FromHexError::InvalidStringLength)
hex_to_32_bytes(s) ==
    LET d == hex_decode(s) IN
    IF d[1] = "Err" THEN d
    ELSE IF Len(d[2]) # 32 THEN Err(<<"InvalidStringLength">>)
         ELSE d

\* A plausible slip: the three numbers are converted before the two hashes.
NewReordered(version, prev_hash_hex, merkle_root, timestamp, bits) ==
    LET v == hex_to_u32(version)
        p == hex_to_32_bytes(prev_hash_hex)
        m == hex_to_32_bytes(merkle_root)
        t == hex_to_u32(timestamp)
        b == hex_to_u32(bits)
    IN  IF v[1] = "Err" THEN v
        ELSE IF t[1] = "Err" THEN t
        ELSE IF b[1] = "Err" THEN b
        ELSE IF p[1] = "Err" THEN p
        ELSE IF m[1] = "Err" THEN m
        ELSE Ok([version |-> v[2], prev_hash |-> p[2], merkle_root |-> m[2],
                 timestamp |-> t[2], bits |-> b[2]])

\* BlockHeader::new: the five conversions in order, each ending the call
\* with its error.
BlockHeaderNew(version, prev_hash_hex, merkle_root, timestamp, bits) ==
    LET v == hex_to_u32(version)
        p == hex_to_32_bytes(prev_hash_hex)
        m == hex_to_32_bytes(merkle_root)
        t == hex_to_u32(timestamp)
        b == hex_to_u32(bits)
    IN  IF v[1] = "Err" THEN v
        ELSE IF p[1] = "Err" THEN p
        ELSE IF m[1] = "Err" THEN m
        ELSE IF t[1] = "Err" THEN t
        ELSE IF b[1] = "Err" THEN b
        ELSE Ok([version |-> v[2], prev_hash |-> p[2], merkle_root |-> m[2],
                 timestamp |-> t[2], bits |-> b[2]])

\* BlockHeader::to_bytes
to_bytes(h) ==
    to_le_bytes(h.version) \o h.prev_hash \o h.merkle_root
        \o to_le_bytes(h.timestamp) \o to_le_bytes(h.bits)

\* A plausible slip: the header is copied behind the four nonce bytes.
HeaderBytesNonceFirst(b76) == [k \in 1..80 |-> IF k <= 4 THEN 0 ELSE b76[k - 4]]

\* header_bytes = [0u8; 80]; header_bytes[..76].copy_from_slice(&to_bytes())
HeaderBytes80(b76) == [k \in 1..80 |-> IF k <= 76 THEN b76[k] ELSE 0]

\* A plausible slip: the two length bytes are written low byte first.
preprocess_length_le(header) ==
    [k \in 1..128 |->
        IF k <= 80 THEN header[k]
        ELSE IF k = 81 THEN 128
        ELSE IF k = 127 THEN 128
        ELSE IF k = 128 THEN 2
        ELSE 0]

\* sha256_preprocess: byte k of the code is element k + 1 here.
sha256_preprocess(header) ==
    [k \in 1..128 |->
        IF k <= 80 THEN header[k]
        ELSE IF k = 81 THEN 128
        ELSE IF k = 127 THEN 2
        ELSE IF k = 128 THEN 128
        ELSE 0]

\* A plausible slip: the chunks are read little-endian.
parse_words_le(header) ==
    [w \in 1..32 |-> from_le_bytes(SubSeq(header, 4 * w - 3, 4 * w))]

\* sha256_parse_words: word i of the code is element i + 1 here.
sha256_parse_words(header) ==
    [w \in 1..32 |-> from_be_bytes(SubSeq(header, 4 * w - 3, 4 * w))]

(***************************************************************************)
(* Codec inputs: the header of block 884,633 the driver mines on, a second *)
(* valid spelling of every field, and damaged copies of the first.         *)
(***************************************************************************)
VersionHex ==
    <<"0", "2", "0", "0", "0", "0", "0", "0">>

PrevHashHex ==
    <<"0", "0", "0", "0", "0", "0", "0", "0",
      "0", "0", "0", "0", "0", "0", "0", "0",
      "0", "0", "0", "1", "4", "6", "6", "0",
      "1", "a", "3", "6", "5", "2", "8", "d",
      "1", "9", "3", "c", "e", "4", "6", "a",
      "a", "f", "c", "0", "0", "a", "8", "0",
      "6", "b", "9", "5", "1", "2", "6", "6",
      "3", "e", "a", "8", "9", "b", "e", "8">>

MerkleRootHex ==
    <<"e", "1", "4", "1", "9", "d", "8", "8",
      "4", "3", "3", "6", "8", "0", "a", "e",
      "e", "b", "c", "7", "b", "a", "f", "6",
      "f", "e", "a", "1", "3", "5", "6", "9",
      "9", "2", "c", "c", "0", "6", "b", "9",
      "c", "b", "7", "b", "e", "7", "c", "7",
      "5", "7", "a", "0", "1", "e", "0", "0",
      "3", "c", "c", "7", "8", "c", "2", "b">>

TimestampHex ==
    <<"6", "5", "d", "7", "e", "9", "2", "0">>

BitsHex ==
    <<"1", "7", "0", "0", "e", "5", "2", "6">>

\* Upper-case digits in rotation: a second valid string of length len.
Cyc(len, off) == [k \in 1..len |-> HexUpper[((k + off) % 16) + 1]]

NonHex == "g"
Bad(s, p) == [s EXCEPT ![p] = NonHex]
Cut(s, d) == SubSeq(s, 1, Len(s) - d)

\* What a caller may pass for a field whose well-formed value is s.
FieldInputs(s, alt) ==
    {s, alt, Bad(s, Len(s)), Cut(s, 1), Cut(s, 2), s \o <<"f", "f">>,
     Bad(Cut(s, 1), 1), Bad(Cut(s, 2), 1)}

HexInputs ==
    {<<v, p, m, t, b>> :
        v \in FieldInputs(VersionHex, Cyc(8, 9)),
        p \in FieldInputs(PrevHashHex, Cyc(64, 0)),
        m \in FieldInputs(MerkleRootHex, Cyc(64, 5)),
        t \in FieldInputs(TimestampHex, Cyc(8, 12)),
        b \in FieldInputs(BitsHex, Cyc(8, 3))}

\* Byte strings of length len: constant, counting and striding bytes.
RawBytes(len) ==
    {[k \in 1..len |-> (a * (k - 1) + b) % 256] :
        a \in 0..MaxStride, b \in {0, 1, 128, 255}}

\* The codec is not in use.
CodecIdle ==
    /\ c_pc = "done"
    /\ c_hex = <<>>
    /\ c_header = <<>>
    /\ c_bytes = <<>>
    /\ c_input = <<>>
    /\ c_padded = <<>>
    /\ c_words = <<>>

\* A caller hands BlockHeader::new five strings, sha256_preprocess 80 bytes
\* or sha256_parse_words 128 bytes.
CodecInit ==
    /\ c_header = <<>>
    /\ c_bytes = <<>>
    /\ c_words = <<>>
    /\ \/ /\ c_pc = "new"
          /\ c_hex \in HexInputs
          /\ c_input = <<>>
          /\ c_padded = <<>>
       \/ /\ c_pc = "preprocess"
          /\ c_hex = <<>>
          /\ c_input \in RawBytes(80)
          /\ c_padded = <<>>
       \/ /\ c_pc = "parse_words"
          /\ c_hex = <<>>
          /\ c_input = <<>>
          /\ c_padded \in RawBytes(128)

\* let header = BlockHeader::new(..)
CodecNew ==
    /\ c_pc = "new"
    /\ c_header' = BlockHeaderNew(c_hex[1], c_hex[2], c_hex[3], c_hex[4],
                                  c_hex[5])
    /\ c_pc' = IF c_header'[1] = "Ok" THEN "to_bytes" ELSE "failed"
    /\ UNCHANGED <<miner_vars, cb_vars, bridge_vars, search_vars, driver_vars,
                   c_hex, c_bytes, c_input, c_padded, c_words>>

\* header.to_bytes()
CodecToBytes ==
    /\ c_pc = "to_bytes"
    /\ c_bytes' = to_bytes(c_header[2])
    /\ c_pc' = "nonce"
    /\ UNCHANGED <<miner_vars, cb_vars, bridge_vars, search_vars, driver_vars,
                   c_hex, c_header, c_input, c_padded, c_words>>

\* header_bytes[..76].copy_from_slice(..): the nonce is left as 0.
CodecZeroNonce ==
    /\ c_pc = "nonce"
    /\ c_input' = HeaderBytes80(c_bytes)
    /\ c_pc' = "preprocess"
    /\ UNCHANGED <<miner_vars, cb_vars, bridge_vars, search_vars, driver_vars,
                   c_hex, c_header, c_bytes, c_padded, c_words>>

\* let padded = sha256_preprocess(&header_bytes)
CodecPreprocess ==
    /\ c_pc = "preprocess"
    /\ c_padded' = sha256_preprocess(c_input)
    /\ c_pc' = "parse_words"
    /\ UNCHANGED <<miner_vars, cb_vars, bridge_vars, search_vars, driver_vars,
                   c_hex, c_header, c_bytes, c_input, c_words>>

\* let words = sha256_parse_words(&padded)
CodecParseWords ==
    /\ c_pc = "parse_words"
    /\ c_words' = sha256_parse_words(c_padded)
    /\ c_pc' = "done"
    /\ UNCHANGED <<miner_vars, cb_vars, bridge_vars, search_vars, driver_vars,
                   c_hex, c_header, c_bytes, c_input, c_padded>>

\* The driver is not running.
DriverIdle ==
    /\ d_pc = "done"
    /\ d_words = <<>>
    /\ count = U32(0, 0)
    /\ d_res = <<>>
    /\ winning_nonce = <<>>
    /\ d_header_bytes = <<>>
    /\ loops = 0
    /\ printed = FALSE

(***************************************************************************)
(* The driver (harvester-bin): the mining loop of main and the header it   *)
(* rebuilds for the winning nonce.  run_batch is taken by what it returns. *)
(***************************************************************************)
\* BlockHeader::new(..).unwrap() on the strings of block 884,633.
DriverHeader ==
    BlockHeaderNew(VersionHex, PrevHashHex, MerkleRootHex, TimestampHex,
                   BitsHex)[2]

\* miner.get_batch_size()
get_batch_size == U32(batch_size \div U16, batch_size % U16)

\* a + b in 32 bits: the wrapped sum, and whether it overflows.
wrapping_add(a, b) ==
    LET lo == a.lo + b.lo
        hi == a.hi + b.hi + lo \div U16
    IN U32(hi % U16, lo % U16)

add_overflows(a, b) == a.hi + b.hi + (a.lo + b.lo) \div U16 >= U16

\* c % 15 of a u32 c.
rem15(c) == ((c.hi % 15) * (U16 % 15) + (c.lo % 15)) % 15

\* Nonces run_batch can return: non-zero lanes of a batch.
Nonces ==
    {U32(0, 1), U32(0, 258), U32(1, 256), U32(1, 1),
     U32((batch_size - 1) \div U16, (batch_size - 1) % U16)}

DriverInit ==
    /\ d_pc = "count"
    /\ d_words =
         sha256_parse_words(sha256_preprocess(HeaderBytes80(to_bytes(DriverHeader))))
    /\ count = U32(0, 0)
    /\ d_res = <<>>
    /\ winning_nonce = <<>>
    /\ d_header_bytes = <<>>
    /\ loops = 0
    /\ printed = FALSE

\* count += miner.get_batch_size(): an overflowing u32 addition panics in a
\* build with overflow checks and wraps in one without.
DrvCount ==
    /\ d_pc = "count"
    /\ loops < MaxLoops
    /\ loops' = loops + 1
    /\ printed' = FALSE
    /\ IF add_overflows(count, get_batch_size)
       THEN \/ /\ d_pc' = "panicked"
               /\ UNCHANGED count
            \/ /\ d_pc' = "run_batch"
               /\ count' = wrapping_add(count, get_batch_size)
       ELSE /\ d_pc' = "run_batch"
            /\ count' = wrapping_add(count, get_batch_size)
    /\ UNCHANGED <<miner_vars, cb_vars, bridge_vars, search_vars, codec_vars,
                   d_words, d_res, winning_nonce, d_header_bytes>>

\* let res = miner.run_batch(&words); if let Some(nonce) = res {
\*     winning_nonce = nonce; break; }
DrvRunBatch ==
    /\ d_pc = "run_batch"
    /\ d_res' \in {None} \cup {Some(x) : x \in Nonces}
    /\ IF d_res' = None
       THEN /\ d_pc' = "print"
            /\ UNCHANGED winning_nonce
       ELSE /\ d_pc' = "found"
            /\ winning_nonce' = d_res'[2]
    /\ UNCHANGED <<miner_vars, cb_vars, bridge_vars, search_vars, codec_vars,
                   d_words, count, d_header_bytes, loops, printed>>

\* if count % 15 * miner.get_batch_size() == 0 { print!(..) }: % and * bind
\* alike and group from the left; the product is at most 14 * 2^20.
DrvPrint ==
    /\ d_pc = "print"
    /\ printed' = (rem15(count) * batch_size = 0)
    /\ d_pc' = "bump"
    /\ UNCHANGED <<miner_vars, cb_vars, bridge_vars, search_vars, codec_vars,
                   d_words, count, d_res, winning_nonce, d_header_bytes,
                   loops>>

\* words[17] = words[17] + 1
DrvBump ==
    /\ d_pc = "bump"
    /\ IF add_overflows(d_words[18], U32(0, 1))
       THEN \/ /\ d_pc' = "panicked"
               /\ UNCHANGED d_words
            \/ /\ d_pc' = "count"
               /\ d_words' = [d_words EXCEPT
                                ![18] = wrapping_add(@, U32(0, 1))]
       ELSE /\ d_pc' = "count"
            /\ d_words' = [d_words EXCEPT ![18] = wrapping_add(@, U32(0, 1))]
    /\ UNCHANGED <<miner_vars, cb_vars, bridge_vars, search_vars, codec_vars,
                   count, d_res, winning_nonce, d_header_bytes, loops,
                   printed>>

\* words[19] = winning_nonce
DrvSetNonce ==
    /\ d_pc = "found"
    /\ d_words' = [d_words EXCEPT ![20] = winning_nonce]
    /\ d_pc' = "rebuild"
    /\ UNCHANGED <<miner_vars, cb_vars, bridge_vars, search_vars, codec_vars,
                   count, d_res, winning_nonce, d_header_bytes, loops,
                   printed>>

\* for i in 0..20 { header_bytes[4i..4i+4] = words[i].to_be_bytes() }
DrvRebuild ==
    /\ d_pc = "rebuild"
    /\ d_header_bytes' =
         [b \in 1..80 |->
             to_be_bytes(d_words[((b - 1) \div 4) + 1])[((b - 1) % 4) + 1]]
    /\ d_pc' = "hash"
    /\ UNCHANGED <<miner_vars, cb_vars, bridge_vars, search_vars, codec_vars,
                   d_words, count, d_res, winning_nonce, loops, printed>>

\* let hash = hash_with_nonce(&header_bytes); println!(..)
DrvHash ==
    /\ d_pc = "hash"
    /\ d_pc' = "done"
    /\ UNCHANGED <<miner_vars, cb_vars, bridge_vars, search_vars, codec_vars,
                   d_words, count, d_res, winning_nonce, d_header_bytes, loops,
                   printed>>

(***************************************************************************)
(* The multi-threaded CPU search (src/src/main.rs): main spawns a timer    *)
(* thread and cpu_cores workers, waits for a result, then joins them all.  *)
(* A worker's range is walked at its sampled nonces; the nonces between    *)
(* them never qualify.  The hash-rate counter steers nothing and is left   *)
(* out.                                                                    *)
(***************************************************************************)
Workers == 0..(cpu_cores - 1)

u32_MAX == U32(U16 - 1, U16 - 1)

\* a / d and a * f in 32 bits, for small d and f.
div_u32(a, d) == U32(a.hi \div d, ((a.hi % d) * U16 + a.lo) \div d)

mul_u32(a, f) ==
    LET lo == a.lo * f
        hi == a.hi * f + lo \div U16
    IN U32(hi % U16, lo % U16)

mul_overflows(a, f) == a.hi * f + (a.lo * f) \div U16 >= U16

lt_u32(a, b) == a.hi < b.hi \/ (a.hi = b.hi /\ a.lo < b.lo)

\* let chunk_size = u32::MAX / cpu_cores as u32
chunk_size == div_u32(u32_MAX, cpu_cores)

\* let start = chunk_size * i as u32
StartOf(w) == mul_u32(chunk_size, w)

\* let end = if i == cpu_cores-1 { u32::MAX } else { chunk_size * (i + 1) }
EndOf(w) == IF w = cpu_cores - 1 THEN u32_MAX ELSE mul_u32(chunk_size, w + 1)

\* The nonce before a, for a above 0.
pred_u32(a) == IF a.lo > 0 THEN U32(a.hi, a.lo - 1) ELSE U32(a.hi - 1, U16 - 1)

\* The sampled nonces: the first and the last value of start..end of every
\* worker, and the largest u32.
SampleNonces ==
    {StartOf(w) : w \in Workers} \cup {pred_u32(EndOf(w)) : w \in Workers}
        \cup {u32_MAX}

\* Which nonces qualify is decided by the hash: any few of the samples.
QualifySets == {Q \in SUBSET SampleNonces : Cardinality(Q) <= MaxWinners}

\* The search is not running.
SearchIdle ==
    /\ m_pc = "done"
    /\ m_i = 0
    /\ m_found = <<>>
    /\ s_stop = FALSE
    /\ s_chan = <<>>
    /\ t_pc = "none"
    /\ w_pc = [w \in Workers |-> "none"]
    /\ w_start = [w \in Workers |-> U32(0, 0)]
    /\ w_end = [w \in Workers |-> U32(0, 0)]
    /\ w_nonce = [w \in Workers |-> U32(0, 0)]
    /\ qualifies = {}
    /\ s_tested = {}

\* main before it spawns its threads.
SearchInit ==
    /\ m_pc = "spawn_timer"
    /\ m_i = 0
    /\ m_found = <<>>
    /\ s_stop = FALSE
    /\ s_chan = <<>>
    /\ t_pc = "none"
    /\ w_pc = [w \in Workers |-> "none"]
    /\ w_start = [w \in Workers |-> U32(0, 0)]
    /\ w_end = [w \in Workers |-> U32(0, 0)]
    /\ w_nonce = [w \in Workers |-> U32(0, 0)]
    /\ qualifies \in QualifySets
    /\ s_tested = {}

other_vars == <<miner_vars, cb_vars, bridge_vars, codec_vars, driver_vars>>

\* let time_handle = thread::spawn(..)
MainSpawnTimer ==
    /\ m_pc = "spawn_timer"
    /\ t_pc' = "check"
    /\ m_pc' = "spawn"
    /\ m_i' = 0
    /\ UNCHANGED <<other_vars, m_found, s_stop, s_chan, w_pc, w_start, w_end,
                   w_nonce, qualifies, s_tested>>

\* for i in 0..cpu_cores { .. thread::spawn(..); handles.push(handle); }
MainSpawn ==
    /\ m_pc = "spawn"
    /\ w_pc' = [w_pc EXCEPT ![m_i] = "start"]
    /\ m_i' = m_i + 1
    /\ m_pc' = IF m_i + 1 < cpu_cores THEN "spawn" ELSE "recv"
    /\ UNCHANGED <<other_vars, m_found, s_stop, s_chan, t_pc, w_start, w_end,
                   w_nonce, qualifies, s_tested>>

\* if let Ok((nonce, hash)) = receiver.recv(): blocks while the channel is
\* empty and a Sender is alive; main's own sender lives until main ends.
MainRecv ==
    /\ m_pc = "recv"
    /\ s_chan # <<>>
    /\ m_found' = Head(s_chan)
    /\ s_chan' = Tail(s_chan)
    /\ m_pc' = "join_timer"
    /\ UNCHANGED <<other_vars, m_i, s_stop, t_pc, w_pc, w_start, w_end,
                   w_nonce, qualifies, s_tested>>

\* time_handle.join().unwrap()
MainJoinTimer ==
    /\ m_pc = "join_timer"
    /\ t_pc = "done"
    /\ m_pc' = "join"
    /\ m_i' = 0
    /\ UNCHANGED <<other_vars, m_found, s_stop, s_chan, t_pc, w_pc, w_start,
                   w_end, w_nonce, qualifies, s_tested>>

\* for h in handles { h.join().unwrap(); }
MainJoin ==
    /\ m_pc = "join"
    /\ w_pc[m_i] = "done"
    /\ m_i' = m_i + 1
    /\ m_pc' = IF m_i + 1 < cpu_cores THEN "join" ELSE "done"
    /\ UNCHANGED <<other_vars, m_found, s_stop, s_chan, t_pc, w_pc, w_start,
                   w_end, w_nonce, qualifies, s_tested>>

MainStep == MainSpawnTimer \/ MainSpawn \/ MainRecv \/ MainJoinTimer \/ MainJoin

\* while !time_stop.load(Ordering::Relaxed) {
TimerCheck ==
    /\ t_pc = "check"
    /\ t_pc' = IF s_stop THEN "done" ELSE "sleep"
    /\ UNCHANGED <<other_vars, m_pc, m_i, m_found, s_stop, s_chan, w_pc,
                   w_start, w_end, w_nonce, qualifies, s_tested>>

\* thread::sleep(3 s); .. println!(..) }
TimerSleep ==
    /\ t_pc = "sleep"
    /\ t_pc' = "check"
    /\ UNCHANGED <<other_vars, m_pc, m_i, m_found, s_stop, s_chan, w_pc,
                   w_start, w_end, w_nonce, qualifies, s_tested>>

TimerStep == TimerCheck \/ TimerSleep

\* The worker computes start and end and enters `for nonce in start..end`;
\* an overflowing product panics or wraps, as the build has it.
WorkerStart(w) ==
    /\ w_pc[w] = "start"
    /\ IF mul_overflows(chunk_size, w)
          \/ (w # cpu_cores - 1 /\ mul_overflows(chunk_size, w + 1))
       THEN \/ /\ w_pc' = [w_pc EXCEPT ![w] = "panicked"]
               /\ UNCHANGED <<w_start, w_end, w_nonce>>
            \/ /\ w_start' = [w_start EXCEPT ![w] = StartOf(w)]
               /\ w_end' = [w_end EXCEPT ![w] = EndOf(w)]
               /\ w_nonce' = [w_nonce EXCEPT ![w] = StartOf(w)]
               /\ w_pc' = [w_pc EXCEPT ![w] =
                             IF lt_u32(StartOf(w), EndOf(w)) THEN "check"
                             ELSE "done"]
       ELSE /\ w_start' = [w_start EXCEPT ![w] = StartOf(w)]
            /\ w_end' = [w_end EXCEPT ![w] = EndOf(w)]
            /\ w_nonce' = [w_nonce EXCEPT ![w] = StartOf(w)]
            /\ w_pc' = [w_pc EXCEPT ![w] =
                          IF lt_u32(StartOf(w), EndOf(w)) THEN "check"
                          ELSE "done"]
    /\ UNCHANGED <<other_vars, m_pc, m_i, m_found, s_stop, s_chan, t_pc,
                   qualifies, s_tested>>

\* if stop.load(Ordering::Relaxed) { break; }
WorkerCheck(w) ==
    /\ w_pc[w] = "check"
    /\ w_pc' = [w_pc EXCEPT ![w] = IF s_stop THEN "done" ELSE "hash"]
    /\ UNCHANGED <<other_vars, m_pc, m_i, m_found, s_stop, s_chan, t_pc,
                   w_start, w_end, w_nonce, qualifies, s_tested>>

\* The sampled nonces of start..end after nonce a: end is excluded.
LaterSamples(w, a) ==
    {x \in SampleNonces : lt_u32(a, x) /\ lt_u32(x, w_end[w])}

\* let hash = hash_with_nonce(&input); if hash[..diff] is all zero {
\* sender.send((nonce, hash)).unwrap(); .. } else the loop goes on to the
\* next nonce or ends.
WorkerHash(w) ==
    /\ w_pc[w] = "hash"
    /\ s_tested' = s_tested \cup {w_nonce[w]}
    /\ IF w_nonce[w] \in qualifies
       THEN /\ s_chan' = Append(s_chan, w_nonce[w])
            /\ w_pc' = [w_pc EXCEPT ![w] = "store"]
            /\ UNCHANGED w_nonce
       ELSE /\ UNCHANGED s_chan
            /\ IF LaterSamples(w, w_nonce[w]) = {}
               THEN /\ w_pc' = [w_pc EXCEPT ![w] = "done"]
                    /\ UNCHANGED w_nonce
               ELSE /\ w_pc' = [w_pc EXCEPT ![w] = "check"]
                    /\ w_nonce' =
                         [w_nonce EXCEPT ![w] =
                             CHOOSE x \in LaterSamples(w, w_nonce[w]) :
                                 \A y \in LaterSamples(w, w_nonce[w]) :
                                     ~lt_u32(y, x)]
    /\ UNCHANGED <<other_vars, m_pc, m_i, m_found, s_stop, t_pc, w_start,
                   w_end, qualifies>>

\* stop.store(true, Ordering::Relaxed); break;
WorkerStore(w) ==
    /\ w_pc[w] = "store"
    /\ s_stop' = TRUE
    /\ w_pc' = [w_pc EXCEPT ![w] = "done"]
    /\ UNCHANGED <<other_vars, m_pc, m_i, m_found, s_chan, t_pc, w_start,
                   w_end, w_nonce, qualifies, s_tested>>

WorkerStep(w) ==
    WorkerStart(w) \/ WorkerCheck(w) \/ WorkerHash(w) \/ WorkerStore(w)

(***************************************************************************)
(* Specifications.                                                         *)
(***************************************************************************)
\* The batch executor, driven with every header.
InitBatch ==
    /\ MinerNew({2 ^ MaxLimitExp}, WgChoices, SUBSET Lanes)
    /\ CbDone
    /\ BridgeNew
    /\ CodecIdle
    /\ DriverIdle
    /\ SearchIdle

NextBatch ==
    \/ \E h \in Headers : CallRunBatch(h)
    \/ RunBatchStep
    \/ GpuExec

SpecBatch == InitBatch /\ [][NextBatch]_vars

\* The miner on any device: run_batch and autotune in any sequence.
Init ==
    /\ MinerNew(Limits, WgChoices, SUBSET Lanes)
    /\ CbDone
    /\ BridgeNew
    /\ CodecIdle
    /\ DriverIdle
    /\ SearchIdle

Next ==
    \/ CallRunBatch(ZeroHeader)
    \/ CallAutotune
    \/ RunBatchStep
    \/ AutotuneStep
    \/ GpuExec

Spec == Init /\ [][Next]_vars

\* create_buffers on every batch size of BatchSizes.
InitBuffers ==
    /\ MinerNew({2 ^ MaxLimitExp}, {DefaultWgSize}, {{}})
    /\ CbInit(BatchSizes)
    /\ BridgeNew
    /\ CodecIdle
    /\ DriverIdle
    /\ SearchIdle

NextBuffers ==
    \/ CbCheckedMul
    \/ CbZeroCheck
    \/ CbPushErrorScope
    \/ CbCreateHeader
    \/ CbCreateOutput
    \/ CbCreateStaging
    \/ CbPopErrorScope

SpecBuffers == InitBuffers /\ [][NextBuffers]_vars

\* The bridge: the forwarding task, the notifier and the consumer.
InitBridge ==
    /\ MinerNew({2 ^ MaxLimitExp}, {DefaultWgSize}, {{}})
    /\ CbDone
    /\ BridgeNew
    /\ CodecIdle
    /\ DriverIdle
    /\ SearchIdle

NextBridge ==
    \/ \E h \in Hashes : ZmqRecvOk(h)
    \/ ZmqRecvErr
    \/ SendOk
    \/ SendClosed
    \/ Abort
    \/ ConsumerRecv
    \/ ConsumerDrop

SpecBridge == InitBridge /\ [][NextBridge]_vars

\* The header codec on every input of HexInputs and RawBytes.
InitCodec ==
    /\ MinerNew({2 ^ MaxLimitExp}, {DefaultWgSize}, {{}})
    /\ CbDone
    /\ BridgeNew
    /\ CodecInit
    /\ DriverIdle
    /\ SearchIdle

NextCodec ==
    \/ CodecNew
    \/ CodecToBytes
    \/ CodecZeroNonce
    \/ CodecPreprocess
    \/ CodecParseWords

SpecCodec == InitCodec /\ [][NextCodec]_vars

\* The driver's main on block 884,633.
InitDriver ==
    /\ MinerNew({2 ^ MaxLimitExp}, {DefaultWgSize}, {{}})
    /\ CbDone
    /\ BridgeNew
    /\ CodecIdle
    /\ DriverInit
    /\ SearchIdle

NextDriver ==
    \/ DrvCount
    \/ DrvRunBatch
    \/ DrvPrint
    \/ DrvBump
    \/ DrvSetNonce
    \/ DrvRebuild
    \/ DrvHash

SpecDriver == InitDriver /\ [][NextDriver]_vars

\* The miner constructed with any workgroup size, on any device.
InitSizes ==
    /\ MinerNew(Limits, AnyWgSizes, {{}})
    /\ CbDone
    /\ BridgeNew
    /\ CodecIdle
    /\ DriverIdle
    /\ SearchIdle

NextSizes ==
    \/ CallRunBatch(ZeroHeader)
    \/ CallAutotune
    \/ RunBatchStep
    \/ AutotuneStep
    \/ GpuExec

SpecSizes == InitSizes /\ [][NextSizes]_vars

\* The CPU search, every thread scheduled fairly.
InitSearch ==
    /\ MinerNew({2 ^ MaxLimitExp}, {DefaultWgSize}, {{}})
    /\ CbDone
    /\ BridgeNew
    /\ CodecIdle
    /\ DriverIdle
    /\ SearchInit

NextSearch ==
    \/ MainSpawnTimer
    \/ MainSpawn
    \/ MainRecv
    \/ MainJoinTimer
    \/ MainJoin
    \/ TimerCheck
    \/ TimerSleep
    \/ \E w \in Workers : WorkerStart(w)
    \/ \E w \in Workers : WorkerCheck(w)
    \/ \E w \in Workers : WorkerHash(w)
    \/ \E w \in Workers : WorkerStore(w)

SpecSearch ==
    /\ InitSearch
    /\ [][NextSearch]_vars
    /\ WF_vars(MainStep)
    /\ WF_vars(TimerStep)
    /\ \A w \in Workers : WF_vars(WorkerStep(w))

(***************************************************************************)
(* Properties of the batch executor.                                       *)
(***************************************************************************)
ReturnedOk == last.op = "run_batch" /\ last.ret[1] = "Ok"

\* Sample index k holds the lowest-indexed non-zero entry of array a.
LowestNonZero(a, k) == a[k] # 0 /\ \A j \in 1..(k - 1) : a[j] = 0

\* C1: run_batch's result is decided by an ascending scan of the copied
\* output array: Some(n) exactly when n is the value of the lowest-indexed
\* non-zero entry, None exactly when every entry is zero; so Some(n) has
\* n # 0 and n was in the output buffer.
C1_ScanResult ==
    ReturnedOk =>
        LET r == last.ret[2] IN
        /\ (r = None) <=> (\A k \in 1..NumLanes : staging_buffer[k] = 0)
        /\ \A k \in 1..NumLanes :
              LowestNonZero(staging_buffer, k) => r = Some(staging_buffer[k])
        /\ r[1] = "Some" =>
              /\ r[2] # 0
              /\ \E k \in 1..NumLanes :
                    /\ LowestNonZero(staging_buffer, k)
                    /\ r[2] = staging_buffer[k]
                    /\ r[2] = output_buffer[k]

\* Two lanes hold candidates and the lower one was returned.
C1_Witness ==
    /\ ReturnedOk
    /\ \E j, k \in 1..NumLanes :
          /\ j < k
          /\ staging_buffer[j] # 0
          /\ staging_buffer[k] # 0
          /\ last.ret[2] = Some(staging_buffer[j])

\* C2: the staging buffer is unmapped whenever run_batch or autotune
\* returns, on every path, the failed-mapping path included.
C2_UnmappedAtReturn == pc = "idle" => staging_map = "unmapped"

StepOrder == <<"upload", "dispatch", "copy", "submit", "map", "poll", "read", "unmap">>

LogInOrder ==
    /\ Len(log) <= Len(StepOrder)
    /\ \A k \in 1..Len(log) : log[k] = StepOrder[k]

\* The step that reads the staging data into res.
ReadStep == res' # res /\ res' # <<>>

\* C3: within one run_batch the steps happen in the order upload, dispatch,
\* copy-out, submit, map request, poll, and the staging data is read only
\* after the mapping completed successfully and the submitted copy-out (of
\* this batch's header) has been executed.
C3_StepOrder ==
    /\ [](LogInOrder)
    /\ [][ReadStep =>
            /\ staging_map = "mapped"
            /\ gpu_queue = <<>>
            /\ SubSeq(StepOrder, 1, 6) = log
            /\ header_buffer = words
            /\ staging_buffer = output_buffer
            /\ res' = staging_buffer]_vars

\* A batch has run through every step and is about to scan what it read.
C3_Witness == pc = "scan" /\ SubSeq(log, 1, 7) = SubSeq(StepOrder, 1, 7) /\ res # <<>>

\* C4: at most one batch is in flight: when a batch is submitted every
\* earlier batch has had its mapping resolved and its staging buffer
\* unmapped, also within autotune and after a run_batch that failed.
C4_OneBatchInFlight ==
    /\ open_batches <= 1
    /\ pc = "map_async" => staging_map = "unmapped"

(***************************************************************************)
(* Properties of the autotuner.                                            *)
(***************************************************************************)
AutotuneReturned == last.op = "autotune"

IsPowerOfTwo(x) == \E e \in 0..30 : x = 2 ^ e

TestedSizes == {tested[j][1] : j \in 1..Len(tested)}

AdmissibleExps == {e \in StartExp..30 : 2 ^ e <= max}

\* j is the first tested size with the minimal recorded time.
FirstMinimal(j) ==
    /\ \A k \in 1..Len(tested) : tested[j][2] <= tested[k][2]
    /\ \A k \in 1..(j - 1) : tested[k][2] > tested[j][2]

\* C6: autotune tests exactly the powers of two 32, 64, ... <= max in
\* ascending order, 20 batches each, and installs the tested size with the
\* minimal time, the smallest such size on a tie; with max = 32 only 32 is
\* tested and installed.
C6_SweepAndPick ==
    AutotuneReturned =>
        /\ Len(tested) = Cardinality(AdmissibleExps)
        /\ \A j \in 1..Len(tested) :
              /\ tested[j][1] = 2 ^ (StartExp + j - 1)
              /\ tested[j][3] = K
        /\ \A j \in 1..Len(tested) :
              FirstMinimal(j) =>
                  /\ wg_size = tested[j][1]
                  /\ compute_pipeline = tested[j][1]
        /\ max = 2 ^ StartExp => (TestedSizes = {2 ^ StartExp} /\ wg_size = 2 ^ StartExp)

\* Three sizes were tested; the second and third tie for the minimum and
\* the second, the smaller of them, was installed.
C6_Witness ==
    /\ AutotuneReturned
    /\ Len(tested) = 3
    /\ tested[1][2] > tested[2][2]
    /\ tested[2][2] = tested[3][2]
    /\ wg_size = tested[2][1]

\* C7: when no power of two >= 32 is admissible (max < 32), autotune leaves
\* wg_size and the installed pipeline at their construction-time values.
C7_RetainDefault ==
    (AutotuneReturned /\ max < 2 ^ StartExp) =>
        /\ wg_size = wg_init
        /\ compute_pipeline = AsU16(wg_init)

(***************************************************************************)
(* Properties of the buffer fabric.                                        *)
(***************************************************************************)
IsZeroBatch == cb_batch.hi = 0 /\ cb_batch.lo = 0

\* batch_size * 4 >= 2^32, that is batch_size >= 2^30.
OverflowsU32 == cb_batch.hi >= 2 ^ 14

\* size \div 4 and size % 4 of a u64 size, by long division.
Div4(size) ==
    LET x == (size.top % 4) * U16 + size.hi
        y == (x % 4) * U16 + size.lo
    IN [top |-> size.top \div 4, hi |-> x \div 4, lo |-> y \div 4, rem |-> y % 4]

IsFourTimes(size, b) ==
    Div4(size) = [top |-> 0, hi |-> b.hi, lo |-> b.lo, rem |-> 0]

\* C8: create_buffers fails with the zero-batch error when batch_size = 0
\* and with the overflow error when batch_size * 4 does not fit in 32 bits,
\* in both cases before any buffer is created or any error scope is pushed;
\* for every other batch_size the validation passes and output and staging
\* are requested with exactly 4 * batch_size bytes.
C8_Validation ==
    /\ IsZeroBatch =>
          /\ cb_buffers = <<>> /\ cb_scope = "none"
          /\ cb_pc = "done" => cb_result = Err("Batch size can't be zero.")
    /\ OverflowsU32 =>
          /\ cb_buffers = <<>> /\ cb_scope = "none"
          /\ cb_pc = "done" => cb_result = Err("Batch size too large, caused overflow")
    /\ (~IsZeroBatch /\ ~OverflowsU32) =>
          /\ cb_pc = "done" =>
                /\ cb_scope = "popped"
                /\ Len(cb_buffers) = 3
                /\ cb_result \in {Ok(<<>>), Err("Buffer creation failed")}
          /\ \A k \in 1..Len(cb_buffers) :
                /\ cb_buffers[k][1] = "Header Buffer" => cb_buffers[k][2] = HeaderBytes
                /\ cb_buffers[k][1] # "Header Buffer" =>
                      IsFourTimes(cb_buffers[k][2], cb_batch)

\* The largest batch size that passes, 2^30 - 1, got its three buffers.
C8_Witness ==
    /\ cb_pc = "done"
    /\ cb_batch = U32(16383, 65535)
    /\ cb_result = Ok(<<>>)
    /\ Len(cb_buffers) = 3

(***************************************************************************)
(* Properties of the tip-change bridge.                                    *)
(***************************************************************************)
IsPrefix(p, q) == Len(p) <= Len(q) /\ SubSeq(q, 1, Len(p)) = p

\* The hash the forwarding task holds and has not sent yet.
Pending == IF l_pc = "send" THEN <<prev_hash>> ELSE <<>>

\* The forwarding task is at send and the channel is full.
WaitingFull == l_pc = "send" /\ rx_open /\ Len(chan) = ChanCapacity

\* C9: the channel has capacity 8 and applies backpressure: at most 8
\* forwarded hashes are queued and not yet received, and while 8 are queued
\* the forwarding task stays at send until the consumer receives one; no
\* hash is dropped or overwritten.
C9_Backpressure ==
    /\ [](/\ Len(chan) <= TestedCapacity
          /\ notified = <<>> => capacity = TestedCapacity
          /\ (rx_open /\ l_pc # "aborted") =>
                notified = received \o chan \o Pending)
    /\ [][WaitingFull =>
            /\ l_pc' \in {"send", "aborted"}
            /\ prev_hash' = prev_hash
            /\ notified' = notified
            /\ \/ chan' = chan
               \/ chan' = Tail(chan) /\ received' = Append(received, Head(chan))
               \/ ~rx_open']_vars

\* Eight hashes are queued and the task holds a ninth at send.
C9_Witness == WaitingFull /\ Len(notified) = TestedCapacity + 1

\* C10: hashes reach the consumer in the notifier's order: what the
\* consumer has received is always a prefix of what the notifier's recv
\* returned (no reordering, duplication or skipping).
C10_NotifierOrder == IsPrefix(received, notified)

\* The consumer has received two different hashes and more are on the way.
C10_Witness ==
    /\ Len(received) >= 2
    /\ received[1] # received[2]
    /\ Len(notified) > Len(received)

\* The task has returned to its caller (cancellation is not a return).
TaskReturned == l_pc = "done"

\* C11: listen_for_new_block returns only on a failure and then stops.  A
\* failed recv ends the task with the receive error and nothing is sent for
\* it; a send to a dropped Receiver ends the task with the send error; after
\* the return the task receives and sends nothing more; and the task never
\* returns Ok, so it does not return while neither operation fails.
C11_StopsOnError ==
    [][/\ (l_pc = "recv" /\ l_pc' = "done") =>
            /\ l_result' = Err("Failed to receive ZMQ message.")
            /\ chan' = chan
            /\ notified' = notified
       /\ (l_pc = "send" /\ l_pc' = "done") =>
            /\ ~rx_open
            /\ l_result' = Err("Failed to send message through channel.")
            /\ chan' = chan
       /\ TaskReturned =>
            /\ l_pc' = l_pc
            /\ l_result' = l_result
            /\ notified' = notified
            /\ Len(chan') <= Len(chan)
       /\ ~TaskReturned => l_result = <<>>
       /\ TaskReturned' => l_result'[1] = "Err"]_vars

\* The notifier failed after hashes had been forwarded and taken.
C11_Witness ==
    /\ TaskReturned
    /\ l_result = Err("Failed to receive ZMQ message.")
    /\ Len(notified) >= 2
    /\ Len(received) >= 1
    /\ rx_open

(***************************************************************************)
(* Error propagation.                                                      *)
(***************************************************************************)
\* A public operation of the miner has returned to its outside caller.
PublicReturned == pc = "idle" /\ at = "idle" /\ last.op # "none"

\* C12: no engine error is swallowed: when a public operation returns and
\* a run_batch it issued (itself, or a calibration batch of autotune)
\* produced an error, the operation returns an error to its caller.
C12_ErrorsPropagated ==
    (PublicReturned /\ errors > 0) =>
        (Len(last.ret) > 0 /\ last.ret[1] = "Err")

(***************************************************************************)
(* Determinism of run_batch.                                               *)
(***************************************************************************)
\* What a batch over the header words h returns when every lane runs: the
\* lowest winning lane other than lane 0, whose nonce 0 reads as no entry.
BatchResult(h) ==
    LET W == {KernelWrite(h, l) : l \in Lanes} \ {0} IN
    IF W = {} THEN None ELSE Some(CHOOSE m \in W : \A x \in W : m <= x)

\* C13: run_batch is deterministic: the value a completed call returns is
\* a function of its header words alone (for the workgroup size in force),
\* whatever batches ran before it, so two calls with identical words and
\* identical wg_size return equal results.
C13_Deterministic == ReturnedOk => last.ret[2] = BatchResult(words)

\* A call found a nonce after a batch with other header words had run.
C13_Witness ==
    /\ ReturnedOk
    /\ mixed
    /\ last.ret[2] # None
    /\ header_buffer = words

(***************************************************************************)
(* Properties of the header codec.                                         *)
(***************************************************************************)
\* sha256_preprocess has run on c_input.
Preprocessed == c_pc \in {"parse_words", "done"} /\ c_input # <<>>

\* C14: sha256_preprocess(H) is 128 bytes: H, then 0x80, then zeros up to
\* byte 125, then 0x02 0x80 (640 bits, big-endian) in bytes 126 and 127.
C14_Padding ==
    Preprocessed =>
        /\ Len(c_padded) = 128
        /\ SubSeq(c_padded, 1, 80) = c_input
        /\ c_padded[81] = 128
        /\ \A k \in 82..126 : c_padded[k] = 0
        /\ c_padded[127] = 2
        /\ c_padded[128] = 128

\* 80 bytes of many values, none of them from a header, were padded.
C14_Witness ==
    /\ Preprocessed
    /\ c_hex = <<>>
    /\ c_input[1] = 255
    /\ c_input[80] # c_input[1]
    /\ c_input[80] # 0

\* The pipeline of the driver has produced the words of a parsed header.
WordsOfHeader == c_pc = "done" /\ c_hex # <<>>

\* C15: for a valid hex 5-tuple the words of the padded header with a zero
\* nonce have word 17 equal to serialized bytes 68..72 read big-endian, and
\* word 19 equal to 0.
C15_TimestampWord ==
    WordsOfHeader =>
        /\ c_words[18] = U32(c_bytes[69] * 256 + c_bytes[70],
                             c_bytes[71] * 256 + c_bytes[72])
        /\ c_words[20] = U32(0, 0)

\* The words of block 884,633's timestamp field: word 17 is 0x65d7e920.
C15_Witness ==
    /\ WordsOfHeader
    /\ c_hex[4] = TimestampHex
    /\ c_words[18] = U32(26071, 59680)

\* to_bytes has run on the parsed header.
Serialized ==
    c_pc \in {"nonce", "preprocess", "parse_words", "done"} /\ c_hex # <<>>

ToLower(c) ==
    IF \E k \in 1..16 : HexUpper[k] = c
    THEN HexLower[CHOOSE k \in 1..16 : HexUpper[k] = c]
    ELSE c

\* The lower-case hex spelling of a byte string.
HexOf(b) ==
    [k \in 1..(2 * Len(b)) |->
        IF k % 2 = 1 THEN HexLower[(b[(k + 1) \div 2] \div 16) + 1]
        ELSE HexLower[(b[k \div 2] % 16) + 1]]

\* Bytes b[from..from+3] are the little-endian bytes of the u32 w.
IsLittleEndianAt(b, from, w) ==
    /\ w.lo = b[from] + 256 * b[from + 1]
    /\ w.hi = b[from + 2] + 256 * b[from + 3]

\* C16: to_bytes yields 76 bytes: version (4, little-endian), prev_hash
\* (32), merkle_root (32), timestamp (4 LE), bits (4 LE); as every number
\* is stored as the little-endian reading of its decoded bytes, the 76
\* bytes spell the five input strings in input order; 65d7e920 is stored as
\* 0x20e9d765 and serialized as 65 d7 e9 20.
C16_Layout ==
    Serialized =>
        LET h == c_header[2] IN
        /\ Len(c_bytes) = 76
        /\ IsLittleEndianAt(c_bytes, 1, h.version)
        /\ SubSeq(c_bytes, 5, 36) = h.prev_hash
        /\ SubSeq(c_bytes, 37, 68) = h.merkle_root
        /\ IsLittleEndianAt(c_bytes, 69, h.timestamp)
        /\ IsLittleEndianAt(c_bytes, 73, h.bits)
        /\ HexOf(c_bytes) =
             [k \in 1..152 |->
                 ToLower((c_hex[1] \o c_hex[2] \o c_hex[3] \o c_hex[4]
                              \o c_hex[5])[k])]
        /\ c_hex[4] = TimestampHex =>
             /\ h.timestamp = U32(8425, 55141)
             /\ SubSeq(c_bytes, 69, 72) = <<101, 215, 233, 32>>

\* Block 884,633's timestamp next to upper-case hashes was serialized.
C16_Witness ==
    /\ Serialized
    /\ c_hex[4] = TimestampHex
    /\ c_hex[2] = Cyc(64, 0)
    /\ c_hex[5] = Cyc(8, 3)

IsHexChar(c) == \E k \in 1..16 : HexLower[k] = c \/ HexUpper[k] = c
FieldLen == <<8, 64, 64, 8, 8>>
HasNonHex(s) == \E k \in 1..Len(s) : ~IsHexChar(s[k])
WrongLen(f) == Len(c_hex[f]) # FieldLen[f]
Offending(f) == WrongLen(f) \/ HasNonHex(c_hex[f])
LengthErrors == {"OddLength", "InvalidStringLength"}

\* BlockHeader::new has returned.
NewReturned == c_hex # <<>> /\ c_pc # "new"

\* C17: BlockHeader::new succeeds exactly when the five inputs are hex
\* strings (either case) of lengths 8, 64, 64, 8, 8; otherwise it returns
\* an error and no header, and the error is that of the first offending
\* field in the order version, prev_hash, merkle_root, timestamp, bits: an
\* invalid-hex error only when that field has a non-hex character, a
\* length error only when it has the wrong length, and hence the one that
\* applies when only one does.
C17_Validation ==
    NewReturned =>
        /\ (c_header[1] = "Ok") <=> (\A f \in 1..5 : ~Offending(f))
        /\ c_header[1] \in {"Ok", "Err"}
        /\ c_header[1] = "Err" =>
             LET f == CHOOSE g \in 1..5 :
                          Offending(g) /\ \A e \in 1..(g - 1) : ~Offending(e)
                 kind == c_header[2][1]
             IN /\ c_pc = "failed"
                /\ kind \in LengthErrors \cup {"InvalidHexCharacter"}
                /\ kind = "InvalidHexCharacter" =>
                     /\ HasNonHex(c_hex[f])
                     /\ c_hex[f][c_header[2][3] + 1] = c_header[2][2]
                     /\ ~IsHexChar(c_header[2][2])
                /\ kind \in LengthErrors => WrongLen(f)

\* A damaged merkle_root decided the error although timestamp and bits are
\* damaged too, in another way.
C17_Witness ==
    /\ NewReturned
    /\ c_header[1] = "Err"
    /\ ~Offending(1) /\ ~Offending(2)
    /\ HasNonHex(c_hex[3]) /\ ~WrongLen(3)
    /\ WrongLen(4) /\ ~HasNonHex(c_hex[4])
    /\ WrongLen(5)
    /\ c_header[2][1] = "InvalidHexCharacter"

\* sha256_parse_words has run on c_padded.
Parsed == c_pc = "done" /\ c_padded # <<>>

\* The 32 words written back, each as its four big-endian bytes.
WordsToBytes(ws) ==
    [k \in 1..128 |-> to_be_bytes(ws[((k - 1) \div 4) + 1])[((k - 1) % 4) + 1]]

\* C18: sha256_parse_words(P) is 32 words, word i the big-endian u32 of
\* bytes 4i..4i+4, so writing the words back big-endian reproduces P.
C18_RoundTrip ==
    Parsed =>
        /\ Len(c_words) = 32
        /\ \A w \in 1..32 :
              c_words[w] = U32(c_padded[4 * w - 3] * 256 + c_padded[4 * w - 2],
                               c_padded[4 * w - 1] * 256 + c_padded[4 * w])
        /\ WordsToBytes(c_words) = c_padded

\* The counting bytes 0, 1, .. 127: word 0 is 0x00010203, word 20 0x50515253.
C18_Witness ==
    /\ Parsed
    /\ c_hex = <<>>
    /\ c_input = <<>>
    /\ c_words[1] = U32(1, 515)
    /\ c_words[21] = U32(20561, 21075)

(***************************************************************************)
(* Properties of the driver.                                               *)
(***************************************************************************)
\* The driver has rebuilt the header it hashes for the winning nonce.
Rebuilt == d_pc \in {"hash", "done"}

\* C19: the 80 bytes the driver hashes for the winning digest are the
\* serialized header followed by the winning nonce little-endian in bytes
\* 76..80, as in the CPU search (input[76..80] = nonce.to_le_bytes()).
C19_NonceLittleEndian ==
    Rebuilt =>
        /\ SubSeq(d_header_bytes, 1, 76) = to_bytes(DriverHeader)
        /\ IsLittleEndianAt(d_header_bytes, 77, winning_nonce)

\* The print decision of iteration `loops` has been taken.
PrintDecided == d_pc = "bump"

\* C20: the hash-rate line is printed exactly in the iterations whose
\* 1-based index is a multiple of 15, for every index, and count holds
\* index * batch_size.
C20_PrintEvery15 ==
    PrintDecided =>
        /\ printed <=> (loops % 15 = 0)
        /\ count.lo = 0
        /\ count.hi = loops * (batch_size \div U16)

(***************************************************************************)
(* Properties of the CPU search.                                           *)
(***************************************************************************)
\* Every worker has computed its range.
AllSpawned == \A w \in Workers : w_pc[w] \notin {"none", "start"}

\* Worker w's loop `for nonce in start..end` visits nonce a.
InRange(w, a) == ~lt_u32(a, w_start[w]) /\ lt_u32(a, w_end[w])

\* C21: the workers' nonce ranges are pairwise disjoint and together cover
\* every 32-bit nonce from 0 up to and including 2^32 - 1: they follow one
\* another without gap from 0, and the largest nonce is in a range.
C21_RangesCover ==
    AllSpawned =>
        /\ \A v, w \in Workers :
              v # w => (~lt_u32(w_start[w], w_end[v])
                            \/ ~lt_u32(w_start[v], w_end[w]))
        /\ w_start[0] = U32(0, 0)
        /\ \A w \in Workers : w + 1 \in Workers => w_end[w] = w_start[w + 1]
        /\ \E w \in Workers : InRange(w, u32_MAX)

\* C24: under fair scheduling the search terminates: receiver.recv()
\* returns and main joins the timer and every worker, whether a worker
\* finds a qualifying nonce or all workers run to the end of their ranges.
C24_Terminates == <>(m_pc = "done")

(***************************************************************************)
(* Lanes executed by a batch.                                              *)
(***************************************************************************)
\* The dispatches recorded or submitted and not yet executed.
Dispatches ==
    {c \in {encoder[k] : k \in 1..Len(encoder)}
             \cup {gpu_queue[k] : k \in 1..Len(gpu_queue)} : c[1] = "dispatch"}

\* C22: in every run_batch call, for any wg_size given at construction and
\* after any autotune, the stored wg_size is the workgroup size of the
\* installed pipeline and divides batch_size, and the lanes a dispatch runs,
\* workgroups times the pipeline's workgroup size, are exactly batch_size.
C22_AllLanesRun ==
    pc # "idle" =>
        /\ wg_size = compute_pipeline
        /\ batch_size % wg_size = 0
        /\ \A c \in Dispatches : c[2] * c[3] = batch_size

(***************************************************************************)
(* Winners found by a batch.                                               *)
(***************************************************************************)
\* The lowest lane of a non-empty set of lanes.
LowestLane(W) == CHOOSE m \in W : \A x \in W : m <= x

\* C23: under the kernel contract, run_batch returns Some whenever at least
\* one lane of the batch is a winner, and the value is the nonce of the
\* lowest winning lane, also when that lane is lane 0.
C23_LowestWinner ==
    ReturnedOk =>
        LET W == KernelWinners(words) IN
        W # {} => last.ret[2] = Some(LowestLane(W))

====
